---- MODULE Spec2Model ----
(***************************************************************************)
(* Spectral unmixing and tiled ROI segmentation of one slide, as written   *)
(* in the two copies of the segmentation notebook                          *)
(* (src/unnamed/part_000 and src/unnamed/part_001):                        *)
(*   normalise, spectral_decompose_and_dump_jpeg, process.                 *)
(*                                                                         *)
(* Numbers are exact rationals <<n, d>> with d > 0; <<0, 0>> is the float  *)
(* NaN that numpy produces for 0/0.  An image is a matrix (sequence of     *)
(* rows) of RGB pixels drawn from a two-colour palette.  Paths are         *)
(* sequences of string tokens, digits being one token each.                *)
(***************************************************************************)
EXTENDS Integers, Sequences, FiniteSets, TLC

\* ------------------------------------------------------------------ bounds
MaxH == 3
MaxW == 3
MaxStride == 2
\* the largest number of brown pixels in an image
MaxBrown == 2
\* the longest batch list
MaxSlides == 3
\* synthetic images: most pixels, largest mixing coefficient
MaxPixels == 2
MaxCoeff == 1
\* training data preparation: most crops below dump_path, most files that
\* train/PD holds beforehand
MaxCrops == 3
MaxOldPD == 51
\* the setup cell: most slides simulated
MaxSim == 2
\* ABetaDataset: most cases of the list, most JSON files below root, and
\* the side of a resized density map
MaxCaseList == 2
MaxFiles == 2
MaxSlideSize == 1
\* splitting the cases: most items of the case to condition map
MaxCases == 3
\* slide statistics: most JSON entries, most rows of a reloaded density grid
MaxEntries == 2
MaxGrid == 2
\* the example cells: longest weight map, largest weight, most executions
\* of the display cell
MaxLen == 3
MaxWeight == 2
MaxRuns == 2

\* ------------------------------------------------------- small arithmetic
Min(a, b) == IF a < b THEN a ELSE b
Max(a, b) == IF a > b THEN a ELSE b
Abs(a) == IF a < 0 THEN -a ELSE a

NaN == <<0, 0>>
IsNaN(q) == q[2] = 0
\* a - b on floats (NaN is contagious)
Sub(a, b) == IF IsNaN(a) \/ IsNaN(b) THEN NaN
             ELSE <<a[1] * b[2] - b[1] * a[2], a[2] * b[2]>>
\* a < b on floats (any comparison with NaN is False)
Less(a, b) == IF IsNaN(a) \/ IsNaN(b) THEN FALSE
              ELSE a[1] * b[2] < b[1] * a[2]
\* a > b on floats
Greater(a, b) == Less(b, a)
\* equality of two rationals as values
SameValue(a, b) == IF IsNaN(a) \/ IsNaN(b) THEN FALSE
                   ELSE a[1] * b[2] = b[1] * a[2]


\* ----------------------------------------------------------- the palette
\* Two RGB colours: a brown (tissue/stain) and a blue-grey pixel.
Brown == <<120, 80, 40>>
Blue == <<60, 100, 110>>
Palette == {Brown, Blue}

\* T_x = np.linalg.lstsq(responses.T, T_I.T): every pixel column is solved
\* on its own, so the weights of a pixel depend on its colour only.  The
\* values are the minimum-norm least-squares weights of the two colours for
\* the response matrix of the source, times 100 and rounded:
\* row 0 (DAB) and row 3 (Brain Transmission).
LstsqDAB(p) == IF p = Brown THEN -139 ELSE 573
LstsqBT(p) == IF p = Brown THEN 716 ELSE -69

\* image.reshape((H * W, 3)): row-major list of the pixels
Flatten(img) ==
  LET h == Len(img)
      w == Len(img[1])
  IN  [i \in 1..(h * w) |-> img[((i - 1) \div w) + 1][((i - 1) % w) + 1]]

\* flat.reshape(H, W): row-major matrix of a flat map
Reshape(flat, h, w) ==
  [r \in 1..h |-> [c \in 1..w |-> flat[(r - 1) * w + c]]]

\* a + b and a / b on floats; the only zero divisor that occurs is 0 / 0
Add(a, b) == IF IsNaN(a) \/ IsNaN(b) THEN NaN
             ELSE <<a[1] * b[2] + b[1] * a[2], a[2] * b[2]>>
Div(a, b) == IF IsNaN(a) \/ IsNaN(b) \/ b[1] = 0 THEN NaN
             ELSE <<a[1] * b[2], a[2] * b[1]>>
\* np.abs of a float
AbsQ(a) == <<Abs(a[1]), a[2]>>
\* F.max() and F.min() of a float array (NaN when an entry is NaN)
RECURSIVE ArrMax(_)
ArrMax(F) ==
  IF \E i \in 1..Len(F) : IsNaN(F[i]) THEN NaN
  ELSE IF Len(F) = 1 THEN F[1]
  ELSE LET t == ArrMax(Tail(F)) IN IF Less(F[1], t) THEN t ELSE F[1]
RECURSIVE ArrMin(_)
ArrMin(F) ==
  IF \E i \in 1..Len(F) : IsNaN(F[i]) THEN NaN
  ELSE IF Len(F) = 1 THEN F[1]
  ELSE LET t == ArrMin(Tail(F)) IN IF Less(t, F[1]) THEN t ELSE F[1]
\* the builtin max(a, b) of two floats
Max2(a, b) == IF Less(a, b) THEN b ELSE a

\* normalise(F): F += max(|min F|, |max F|); F /= F.max(); the value is the
\* content of F afterwards
normalise(F) ==
  LET m == Max2(AbsQ(ArrMin(F)), AbsQ(ArrMax(F)))
      shifted == [i \in 1..Len(F) |-> Add(F[i], m)]
      top == ArrMax(shifted)
  IN  [i \in 1..Len(F) |-> Div(shifted[i], top)]

\* raw_DAB = (normalise(DAB) - normalise(BT)).reshape(H, W)
RawDAB(img) ==
  LET T_I == Flatten(img)
      DAB == normalise([i \in 1..Len(T_I) |-> <<LstsqDAB(T_I[i]), 1>>])
      BT == normalise([i \in 1..Len(T_I) |-> <<LstsqBT(T_I[i]), 1>>])
  IN  Reshape([i \in 1..Len(T_I) |-> Sub(DAB[i], BT[i])],
              Len(img), Len(img[1]))

\* mutant: floor instead of ceil
CeilDivFloor(n, s) == n \div s
\* int(np.ceil(n / stride))
CeilDiv(n, s) == IF n % s = 0 THEN n \div s ELSE (n \div s) + 1

\* np.arange(0, n, stride) as a sequence
RECURSIVE ArangeFrom(_, _, _)
ArangeFrom(a, n, s) == IF a >= n THEN <<>> ELSE <<a>> \o ArangeFrom(a + s, n, s)
\* mutant: the scan steps one pixel too far
ArangeWideStep(n, s) == ArangeFrom(0, n, s + 1)
Arange(n, s) == ArangeFrom(0, n, s)

\* M[y : y + stride, x : x + stride]: a slice end beyond the array is
\* clipped to the array, rows and columns are 0-based in the source
Section(M, y, x, s) ==
  LET y1 == Min(y + s, Len(M))
      x1 == Min(x + s, Len(M[1]))
  IN  [r \in 1..(y1 - y) |-> [c \in 1..(x1 - x) |-> M[y + r][x + c]]]

\* mutant: row and column origin exchanged
CropSwapped(img, y, x, s) == Section(img, x, y, s)
\* the crop handed to io.imwrite: image[y : y + stride, x : x + stride, :]
Crop(img, y, x, s) == Section(img, y, x, s)

\* mutant: the mask is "above the threshold"
MaskCountAbove(sec, thr) ==
  Cardinality({rc \in (1..Len(sec)) \X (1..Len(sec[1])) :
                 Greater(sec[rc[1]][rc[2]], thr)})
\* number of True entries / number of entries of section < raw_threshold
MaskCount(sec, thr) ==
  Cardinality({rc \in (1..Len(sec)) \X (1..Len(sec[1])) :
                 Less(sec[rc[1]][rc[2]], thr)})
Size(sec) == Len(sec) * Len(sec[1])

\* mutant: >= instead of >
RawIncludedAtLeast(sec, thr, rpc) ==
  ~Less(<<MaskCount(sec, thr), Size(sec)>>, rpc)
\* np.mean(section) > raw_pc
RawIncluded(sec, thr, rpc) ==
  Greater(<<MaskCount(sec, thr), Size(sec)>>, rpc)

\* ------------------------------------------------------------ file names
DigitChar == <<"0", "1", "2", "3", "4", "5", "6", "7", "8", "9">>
\* f"{n}" for a non-negative integer
RECURSIVE Digits(_)
Digits(n) == IF n < 10 THEN <<DigitChar[n + 1]>>
             ELSE Digits(n \div 10) \o <<DigitChar[(n % 10) + 1]>>

\* os.path.basename(os.path.normpath(file)): the tokens after the last "/"
RECURSIVE Basename(_)
Basename(file) ==
  IF \A i \in 1..Len(file) : file[i] # "/" THEN file
  ELSE Basename(Tail(file))

\* f"{jpeg_dump_path_and_name}{dump_number}.jpg"
CropPath(prefix, n) == prefix \o Digits(n) \o <<".jpg">>

\* ---------------------------------------------------------- configuration
\* config["dump_path"] (it ends with a slash in both notebooks)
dump_path == <<"dump", "/">>
\* f'{config["dump_path"]}/{cnd}/{file_name}'
DumpPrefix(cnd, file_name) == dump_path \o <<"/", cnd, "/">> \o file_name
\* f'{config["dump_path"]}/{cnd}/{file_name}.npy'
DensityPath(cnd, file_name) == DumpPrefix(cnd, file_name) \o <<".npy">>

\* defaults of spectral_decompose_and_dump_jpeg
DefaultRawThreshold == <<-3, 10>>
DefaultRawPc == <<1, 800>>
DefaultPrefix == <<"start_name">>

\* values a direct caller passes
RawThresholds == {DefaultRawThreshold, <<6, 10>>}
RawPcs == {DefaultRawPc, <<1, 2>>}
Strides == 1..MaxStride

\* the slide descriptors of the batch list (one real, one simulated)
Descriptors ==
  { [file |-> <<"in", "/", "PD", "/", "PD788-17_A", ".svs">>,
     condition |-> "PD", sim |-> FALSE],
    [file |-> <<"dump", "/", "/", "PDC0-17_A", ".png">>,
     condition |-> "Controls", sim |-> TRUE] }
NoDescriptor == [file |-> <<>>, condition |-> "", sim |-> FALSE]

\* the density file an earlier run of the batch left for the slide
StaleDensity(a) ==
  [path |-> DensityPath(a.condition, Basename(a.file)),
   data |-> [densities |-> <<>>]]

\* the sets of at most k elements of S
RECURSIVE SubsetsUpTo(_, _)
SubsetsUpTo(S, k) ==
  IF k = 0 \/ S = {} THEN {{}}
  ELSE LET x == CHOOSE e \in S : TRUE
           rest == S \ {x}
       IN  SubsetsUpTo(rest, k) \cup {B \cup {x} : B \in SubsetsUpTo(rest, k - 1)}

\* the images of a size: blue-grey pixels, brown at up to MaxBrown places
ImagesOfSize(h, w) ==
  { [r \in 1..h |-> [c \in 1..w |-> IF <<r, c>> \in B THEN Brown ELSE Blue]] :
      B \in SubsetsUpTo((1..h) \X (1..w), MaxBrown) }

Images ==
  UNION { ImagesOfSize(hw[1], hw[2]) : hw \in (1..MaxH) \X (1..MaxW) }

\* ------------------------------------------------------------------ state
VARIABLES
  caller,        \* "process" (the batch worker) or "direct" (a call of the function)
  argv,          \* the slide descriptor handed to process
  opens,         \* whether the slide constructor succeeds
  decodes,       \* whether get_slide_with_pixel_resolution_in_microns succeeds
  image,         \* the array the slide reader returns
  stride, process_raw, raw_threshold, raw_pc, jpeg_dump_path_and_name,
  pc,            \* position in process / spectral_decompose_and_dump_jpeg
  raw_DAB,       \* the raw signal map
  densities,     \* the density array of the function
  dump_number,   \* ticker for the JPEG index
  xi, yi,        \* loop indices of the scan (enumerate)
  d,             \* the value the function returned
  result,        \* the value process returned
  raised,        \* the exception that left the function, "" when none
  disk,          \* the files below the output tree: set of [path, data]
  writes,        \* log of the io.imwrite calls, in order
  scored,        \* log of the tiles evaluated by the scan, in order
  batch,         \* files_list_and_configuration
  bi,            \* number of entries of the batch handed to process so far
  results,       \* the list pqdm builds, one entry per finished call
  outcomes,      \* log of what each call of process did, in batch order
  T_x,           \* the weight map T_x[0][0] of the example cells
  DAB,           \* DAB = normalise(T_x[0][0].copy()) of the example cells
  shown,         \* the arrays the display cell handed to imshow, in order
  runs,          \* number of executions of the display cell
  lstsq,         \* the row of weights np.linalg.lstsq computed
  mix,           \* the known mixing coefficients of a synthetic image
  weights,       \* T_x[0] of the solve for that image, per pixel
  jsons,         \* the slide JSONs handed to slide_statistics_for_slide
  slide_filter, norm,
  si,            \* number of entries of jsons the loop has visited
  control, ad, pd, msa,  \* the four score lists
  dumped,        \* the crops below dump_path: [s, base, shape]
  train,         \* the files below train/: [s, base]
  old_controls,  \* whether train/Controls held a jpg before the copy cell
  tpc,           \* position in the training data preparation
  todo,          \* the crops the copy loops have still to visit
  copies,        \* log of the shutil.copyfile calls, in order
  l_control, l_test, control_file_list, control_injection_index,
  control_slide, \* the control slide sampled by the iteration
  written,       \* the crops io.imwrite wrote in the iteration so far
  im,            \* the last crop cut from the slide: its shape
  case_cond,     \* the case to condition map, in dictionary order
  split_condition, \* the condition split_cases_into_train_and_test is asked for
  ki,            \* number of items of case_cond the loop has visited
  split_train, split_test, switch,
  cases,         \* the case list handed to ABetaDataset
  root,          \* the JSON files glob finds below root
  conds,         \* the case_conditions argument: whether given, and the map
  ds_data,       \* self.data
  targets,       \* self.targets
  class_index,   \* the local class_index, -1 while it is unbound
  dpc,           \* position in ABetaDataset.__init__
  config,        \* the configuration of the setup cell
  made,          \* the directories mkdir has created
  listed,        \* files_list_and_configuration of the setup cell
  ppc,           \* position in the setup cell
  pi,            \* number of descriptors process has been called with
  target         \* the directory process writes the descriptor's files to

\* the state of the steps around the segmentation
fitVars == <<mix, weights>>
statVars == <<jsons, slide_filter, norm, si, control, ad, pd, msa>>
trainVars == <<dumped, train, old_controls, tpc, todo, copies, l_control,
               l_test, control_file_list, control_injection_index,
               control_slide, written, im>>
splitVars == <<case_cond, split_condition, ki, split_train, split_test, switch>>
dataVars == <<cases, root, conds, ds_data, targets, class_index, dpc>>
pathVars == <<config, made, listed, ppc, pi, target>>
remaining == <<splitVars, dataVars, pathVars>>
downstream == <<fitVars, statVars, trainVars, remaining>>

vars == <<caller, argv, opens, decodes, image, stride, process_raw,
          raw_threshold, raw_pc, jpeg_dump_path_and_name, pc, raw_DAB,
          densities, dump_number, xi, yi, d, result, raised, disk, writes,
          scored, batch, bi, results, outcomes, T_x, DAB, shown, runs,
          lstsq, downstream>>

\* the state of the batch loop and of the example cells
others == <<batch, bi, results, outcomes, T_x, DAB, shown, runs, lstsq,
            downstream>>

inputs == <<caller, argv, opens, decodes, image, stride, process_raw,
            raw_threshold, raw_pc>>

\* no batch is running
NoBatch ==
  /\ batch = <<>>
  /\ bi = 0
  /\ results = <<>>
  /\ outcomes = <<>>

\* the example cells are not run
NoCells ==
  /\ T_x = <<>>
  /\ DAB = <<>>
  /\ shown = <<>>
  /\ runs = 0
  /\ lstsq = <<>>

\* no synthetic image is being solved
NoFit ==
  /\ mix = <<>>
  /\ weights = <<>>

\* slide_statistics_for_slide is not running
NoStats ==
  /\ jsons = <<>>
  /\ slide_filter = "None"
  /\ norm = TRUE
  /\ si = 0
  /\ control = <<>>
  /\ ad = <<>>
  /\ pd = <<>>
  /\ msa = <<>>

\* the training data preparation is not running
NoTrain ==
  /\ dumped = {}
  /\ train = {}
  /\ old_controls = FALSE
  /\ tpc = "off"
  /\ todo = <<>>
  /\ copies = <<>>
  /\ l_control = 0
  /\ l_test = 0
  /\ control_file_list = <<>>
  /\ control_injection_index = 0
  /\ control_slide = <<>>
  /\ written = 0
  /\ im = <<>>

\* split_cases_into_train_and_test is not running
NoSplit ==
  /\ case_cond = <<>>
  /\ split_condition = <<>>
  /\ ki = 0
  /\ split_train = <<>>
  /\ split_test = <<>>
  /\ switch = FALSE

\* no ABetaDataset is being constructed
NoData ==
  /\ cases = <<>>
  /\ root = {}
  /\ conds = [supplied |-> FALSE, map |-> <<>>]
  /\ ds_data = <<>>
  /\ targets = <<>>
  /\ class_index = -1
  /\ dpc = "off"

\* the setup cell is not modelled with its directories
NoPaths ==
  /\ config = <<>>
  /\ made = {}
  /\ listed = <<>>
  /\ ppc = "off"
  /\ pi = 0
  /\ target = <<>>

NoRest ==
  /\ NoSplit
  /\ NoData
  /\ NoPaths

NoDownstream ==
  /\ NoFit
  /\ NoStats
  /\ NoTrain
  /\ NoRest

\* no call of the segmentation is running
NoCall ==
  /\ caller = "direct"
  /\ argv = NoDescriptor
  /\ opens = TRUE
  /\ decodes = TRUE
  /\ image = <<(<<Blue>>)>>
  /\ stride = 1
  /\ process_raw = TRUE
  /\ raw_threshold = DefaultRawThreshold
  /\ raw_pc = DefaultRawPc
  /\ jpeg_dump_path_and_name = DefaultPrefix
  /\ pc = "off"
  /\ raw_DAB = <<>>
  /\ densities = <<>>
  /\ dump_number = 0
  /\ xi = 0
  /\ yi = 0
  /\ d = <<>>
  /\ result = <<>>
  /\ raised = ""
  /\ disk = {}
  /\ writes = <<>>
  /\ scored = <<>>

\* everything up to the training data preparation
upstream == <<inputs, jpeg_dump_path_and_name, pc, raw_DAB, densities,
              dump_number, xi, yi, d, result, raised, disk, writes, scored,
              batch, bi, results, outcomes, T_x, DAB, shown, runs, lstsq>>

Init ==
  /\ stride \in Strides
  /\ decodes \in BOOLEAN
  /\ \/ /\ caller = "process"
        /\ argv \in Descriptors
        /\ opens \in BOOLEAN
        /\ process_raw = TRUE
        /\ raw_threshold = DefaultRawThreshold
        /\ raw_pc = DefaultRawPc
        /\ pc = "open"
        /\ disk \in {{}, {StaleDensity(argv)}}
     \/ /\ caller = "direct"
        /\ argv = NoDescriptor
        /\ opens = TRUE
        /\ process_raw \in BOOLEAN
        /\ raw_threshold \in RawThresholds
        /\ raw_pc \in RawPcs
        /\ pc = "call"
        /\ disk = {}
  \* the slide reader returns an array only when the slide opens and decodes
  /\ image \in (IF opens /\ decodes THEN Images ELSE {<<(<<Blue>>)>>})
  /\ jpeg_dump_path_and_name = DefaultPrefix
  /\ raw_DAB = <<>>
  /\ densities = <<>>
  /\ dump_number = 0
  /\ xi = 0
  /\ yi = 0
  /\ d = <<>>
  /\ result = <<>>
  /\ raised = ""
  /\ writes = <<>>
  /\ scored = <<>>
  /\ NoBatch
  /\ NoCells
  /\ NoDownstream

\* ---------------------------------------------------------------- helpers
\* np.zeros((y_pass, x_pass))
Zeros(rows, cols) == [r \in 1..rows |-> [c \in 1..cols |-> <<0, 1>>]]

\* writing a file creates it or replaces its content
WriteFile(files, path, data) ==
  {f \in files : f.path # path} \cup {[path |-> path, data |-> data]}

\* the scan "for xi, x in ...: for yi, y in ...": the indices of the tile
\* after tile (i, j) of a grid with ny rows; x is the outer loop
NextTile(i, j, ny) == IF j + 1 < ny THEN <<i, j + 1>> ELSE <<i + 1, 0>>

\* mutant: the ticker is not advanced
NextDumpStuck(n) == n
\* dump_number += 1
NextDump(n) == n + 1

\* ---------------------------------------------------------------- process
\* mutant: the failure to open leaves process as an exception
ProcessOpenFailRaises ==
  /\ pc = "open"
  /\ ~opens
  /\ raised' = "SlideError"
  /\ pc' = "raised"
  /\ UNCHANGED <<others, inputs, jpeg_dump_path_and_name, raw_DAB, densities,
                 dump_number, xi, yi, d, result, disk, writes, scored>>
\* mutant: the failure falls through to the save of the density file
ProcessOpenFailSaves ==
  /\ pc = "open"
  /\ ~opens
  /\ disk' = WriteFile(disk,
                       DensityPath(argv.condition, Basename(argv.file)),
                       [densities |-> d])
  /\ result' = argv.file
  /\ pc' = "done"
  /\ UNCHANGED <<others, inputs, jpeg_dump_path_and_name, raw_DAB, densities,
                 dump_number, xi, yi, d, raised, writes, scored>>

\* try: ... slide = AperioSlide(file) / SyntheticSlide(file) raises;
\* except: return file
ProcessOpenFail ==
  /\ pc = "open"
  /\ ~opens
  /\ result' = argv.file
  /\ pc' = "done"
  /\ UNCHANGED <<others, inputs, jpeg_dump_path_and_name, raw_DAB, densities,
                 dump_number, xi, yi, d, raised, disk, writes, scored>>

\* the slide opens; process calls the function with the configured stride
\* and the dump prefix of the slide
ProcessOpen ==
  /\ pc = "open"
  /\ opens
  /\ jpeg_dump_path_and_name' = DumpPrefix(argv.condition, Basename(argv.file))
  /\ pc' = "call"
  /\ UNCHANGED <<others, inputs, raw_DAB, densities, dump_number, xi, yi, d, result,
                 raised, disk, writes, scored>>

\* ----------------------------------------- spectral_decompose_and_dump_jpeg
\* slice.get_slide_with_pixel_resolution_in_microns(2.0) raises: nothing in
\* the function or in process catches it
DecodeFail ==
  /\ pc = "call"
  /\ ~decodes
  /\ raised' = "SlideError"
  /\ pc' = "raised"
  /\ UNCHANGED <<others, inputs, jpeg_dump_path_and_name, raw_DAB, densities,
                 dump_number, xi, yi, d, result, disk, writes, scored>>

\* mutant: the ticker of the JPEG index is not set back
PrepareKeepsTicker ==
  /\ pc = "call"
  /\ decodes
  /\ LET yy == Len(image)
         xx == Len(image[1])
         x_pass == CeilDiv(xx, stride)
         y_pass == CeilDiv(yy, stride)
     IN  densities' = Zeros(y_pass, x_pass)
  /\ raw_DAB' = RawDAB(image)
  /\ xi' = 0
  /\ yi' = 0
  /\ pc' = "scan"
  /\ UNCHANGED <<others, inputs, jpeg_dump_path_and_name, dump_number, d,
                 result, raised, disk, writes, scored>>
\* mutant: the unmixing writes its background colour into the image
PrepareOverwritesImage ==
  /\ pc = "call"
  /\ decodes
  /\ LET yy == Len(image)
         xx == Len(image[1])
         x_pass == CeilDiv(xx, stride)
         y_pass == CeilDiv(yy, stride)
     IN  densities' = Zeros(y_pass, x_pass)
  /\ raw_DAB' = RawDAB(image)
  /\ dump_number' = 0
  /\ xi' = 0
  /\ yi' = 0
  /\ pc' = "scan"
  /\ image' = [r \in 1..Len(image) |-> [c \in 1..Len(image[1]) |-> Blue]]
  /\ UNCHANGED <<others, caller, argv, opens, decodes, stride, process_raw,
                 raw_threshold, raw_pc, jpeg_dump_path_and_name, d, result,
                 raised, disk, writes, scored>>
\* from reading the image to "dump_number = 0".  In part_000 this is the
\* path of both modes; in part_001 it is the path of raw mode.
Prepare ==
  /\ pc = "call"
  /\ decodes
  /\ LET yy == Len(image)
         xx == Len(image[1])
         x_pass == CeilDiv(xx, stride)
         y_pass == CeilDiv(yy, stride)
     IN  densities' = Zeros(y_pass, x_pass)
  /\ raw_DAB' = RawDAB(image)
  /\ dump_number' = 0
  /\ xi' = 0
  /\ yi' = 0
  /\ pc' = "scan"
  /\ UNCHANGED <<others, inputs, jpeg_dump_path_and_name, d, result, raised, disk,
                 writes, scored>>

\* part_001, process_raw=False: colourmap_1d is bound by no import and no
\* cell of the notebook, the call raises NameError before the scan
PrepareNameError ==
  /\ pc = "call"
  /\ decodes
  /\ ~process_raw
  /\ raised' = "NameError"
  /\ pc' = "raised"
  /\ UNCHANGED <<others, inputs, jpeg_dump_path_and_name, raw_DAB, densities,
                 dump_number, xi, yi, d, result, disk, writes, scored>>

\* part_000, process_raw=False: raw_DAB is two-dimensional, section[:, :, 0]
\* of the first tile raises IndexError
ScanTileIndexError ==
  /\ pc = "scan"
  /\ ~process_raw
  /\ raised' = "IndexError"
  /\ pc' = "raised"
  /\ UNCHANGED <<others, inputs, jpeg_dump_path_and_name, raw_DAB, densities,
                 dump_number, xi, yi, d, result, disk, writes, scored>>

\* one iteration of the raw-mode scan: score the tile, write its crop when
\* it is included, go to the next tile
ScanTile ==
  /\ pc = "scan"
  /\ process_raw
  /\ LET yy == Len(image)
         xx == Len(image[1])
         xs == Arange(xx, stride)
         ys == Arange(yy, stride)
         x == xs[xi + 1]
         y == ys[yi + 1]
         section == Section(raw_DAB, y, x, stride)
         inc == RawIncluded(section, raw_threshold, raw_pc)
         path == CropPath(jpeg_dump_path_and_name, dump_number)
         crop == Crop(image, y, x, stride)
         nxt == NextTile(xi, yi, Len(ys))
     IN  /\ scored' = Append(scored,
                        [xi |-> xi, yi |-> yi, x |-> x, y |-> y,
                         rows |-> Len(section), cols |-> Len(section[1]),
                         count |-> MaskCount(section, raw_threshold),
                         included |-> inc])
         /\ IF inc
              THEN /\ disk' = WriteFile(disk, path, crop)
                   /\ writes' = Append(writes, [path |-> path, data |-> crop,
                                                x |-> x, y |-> y])
                   /\ dump_number' = NextDump(dump_number)
              ELSE UNCHANGED <<disk, writes, dump_number>>
         /\ xi' = nxt[1]
         /\ yi' = nxt[2]
         /\ pc' = IF nxt[1] < Len(xs) THEN "scan" ELSE "return"
  /\ UNCHANGED <<others, inputs, jpeg_dump_path_and_name, raw_DAB, densities, d,
                 result, raised>>

\* return densities
Return ==
  /\ pc = "return"
  /\ d' = densities
  /\ pc' = IF caller = "process" THEN "save" ELSE "done"
  /\ UNCHANGED <<others, inputs, jpeg_dump_path_and_name, raw_DAB, densities,
                 dump_number, xi, yi, result, raised, disk, writes, scored>>

\* mutant: the density file is saved only when a crop was written
ProcessSaveOnlyWithRoi ==
  /\ pc = "save"
  /\ disk' = IF dump_number > 0
               THEN WriteFile(disk,
                              DensityPath(argv.condition, Basename(argv.file)),
                              [densities |-> d])
               ELSE disk
  /\ result' = argv.file
  /\ pc' = "done"
  /\ UNCHANGED <<others, inputs, jpeg_dump_path_and_name, raw_DAB, densities,
                 dump_number, xi, yi, d, raised, writes, scored>>
\* with open(f'{dump_path}/{cnd}/{file_name}.npy', "wb") as f: np.save(f, d)
\* return file
ProcessSave ==
  /\ pc = "save"
  /\ disk' = WriteFile(disk,
                       DensityPath(argv.condition, Basename(argv.file)),
                       [densities |-> d])
  /\ result' = argv.file
  /\ pc' = "done"
  /\ UNCHANGED <<others, inputs, jpeg_dump_path_and_name, raw_DAB, densities,
                 dump_number, xi, yi, d, raised, writes, scored>>

Next ==
  \/ ProcessOpenFail
  \/ ProcessOpen
  \/ DecodeFail
  \/ Prepare
  \/ PrepareNameError
  \/ ScanTileIndexError
  \/ ScanTile
  \/ Return
  \/ ProcessSave

Spec == Init /\ [][Next]_vars

\* ------------------------------------------------------------- the batch
\* config["search_directories"]: the same case folders on two drives
search_directories == <<"in", "in2">>

\* the slides the enumeration can list: the same slide name below both
\* search directories, and a simulated control
BatchDescriptors ==
  Descriptors \cup
  { [file |-> <<search_directories[2], "/", "PD", "/", "PD788-17_A", ".svs">>,
     condition |-> "PD", sim |-> FALSE] }

\* the pixels the slide reader returns for a file of the batch
SlideImage(file) ==
  IF file[1] = search_directories[1]
    THEN <<(<<Brown, Blue>>), (<<Blue, Brown>>)>>
  ELSE IF file[1] = search_directories[2]
    THEN <<(<<Blue, Brown>>), (<<Blue, Blue>>)>>
  ELSE <<(<<Blue, Blue>>), (<<Blue, Blue>>)>>

\* the lists of distinct descriptors of a length
RECURSIVE ListsOfLen(_, _)
ListsOfLen(S, n) ==
  IF n = 0 THEN {<<>>}
  ELSE UNION { {<<x>> \o l : l \in ListsOfLen(S \ {x}, n - 1)} : x \in S }

Batches == UNION { ListsOfLen(BatchDescriptors, n) : n \in 1..MaxSlides }

BatchInit ==
  /\ batch \in Batches
  /\ stride \in Strides
  /\ bi = 0
  /\ results = <<>>
  /\ outcomes = <<>>
  /\ caller = "process"
  /\ argv = NoDescriptor
  /\ opens = TRUE
  /\ decodes = TRUE
  /\ image = <<(<<Blue>>)>>
  /\ process_raw = TRUE
  /\ raw_threshold = DefaultRawThreshold
  /\ raw_pc = DefaultRawPc
  /\ jpeg_dump_path_and_name = DefaultPrefix
  /\ pc = "idle"
  /\ raw_DAB = <<>>
  /\ densities = <<>>
  /\ dump_number = 0
  /\ xi = 0
  /\ yi = 0
  /\ d = <<>>
  /\ result = <<>>
  /\ raised = ""
  /\ disk = {}
  /\ writes = <<>>
  /\ scored = <<>>
  /\ NoCells
  /\ NoDownstream

\* pqdm takes the next entry of the list and calls process on it (n_jobs=1:
\* one call at a time, in list order); the call starts with fresh locals
BatchLoad ==
  /\ pc = "idle"
  /\ bi < Len(batch)
  /\ bi' = bi + 1
  /\ argv' = batch[bi + 1]
  /\ image' = SlideImage(batch[bi + 1].file)
  /\ \E o \in {<<FALSE, TRUE>>, <<TRUE, FALSE>>, <<TRUE, TRUE>>} :
       /\ opens' = o[1]
       /\ decodes' = o[2]
  /\ d' = <<>>
  /\ result' = <<>>
  /\ raised' = ""
  /\ writes' = <<>>
  /\ scored' = <<>>
  /\ pc' = "open"
  /\ UNCHANGED <<caller, stride, process_raw, raw_threshold, raw_pc,
                 jpeg_dump_path_and_name, raw_DAB, densities, dump_number,
                 xi, yi, disk, batch, results, outcomes, T_x, DAB, shown,
                 runs, lstsq, downstream>>

\* io.imwrite of an included tile raises (the destination is unwritable):
\* nothing in the function or in process catches it
ScanTileWriteFail ==
  /\ pc = "scan"
  /\ process_raw
  /\ LET xs == Arange(Len(image[1]), stride)
         ys == Arange(Len(image), stride)
         section == Section(raw_DAB, ys[yi + 1], xs[xi + 1], stride)
     IN  RawIncluded(section, raw_threshold, raw_pc)
  /\ raised' = "OSError"
  /\ pc' = "raised"
  /\ UNCHANGED <<others, inputs, jpeg_dump_path_and_name, raw_DAB, densities,
                 dump_number, xi, yi, d, result, disk, writes, scored>>

\* open(..., "wb") of the density file raises: process does not catch it
ProcessSaveFail ==
  /\ pc = "save"
  /\ raised' = "OSError"
  /\ pc' = "raised"
  /\ UNCHANGED <<others, inputs, jpeg_dump_path_and_name, raw_DAB, densities,
                 dump_number, xi, yi, d, result, disk, writes, scored>>

\* the entry pqdm puts in its list for a finished call: the value process
\* returned, or the exception that left it
ResultEntry ==
  IF pc = "done" THEN [kind |-> "value", value |-> result]
  ELSE [kind |-> "exception", value |-> <<raised>>]

\* mutant: an exception leaving process ends the batch
BatchCollectAborts ==
  /\ pc \in {"done", "raised"}
  /\ Len(results) < bi
  /\ IF pc = "done"
       THEN /\ results' = Append(results, ResultEntry)
            /\ outcomes' = Append(outcomes,
                              [opened |-> opens, decoded |-> decodes,
                               raised |-> raised, writes |-> writes, d |-> d])
            /\ pc' = "idle"
       ELSE /\ pc' = "aborted"
            /\ UNCHANGED <<results, outcomes>>
  /\ UNCHANGED <<inputs, jpeg_dump_path_and_name, raw_DAB, densities,
                 dump_number, xi, yi, d, result, raised, disk, writes, scored,
                 batch, bi, T_x, DAB, shown, runs, lstsq, downstream>>

\* result = pqdm(files_list_and_configuration, process, n_jobs=1): pqdm is
\* called with its default exception_behaviour ("ignore"), under which an
\* exception that leaves a call becomes that call's entry of the list and
\* the remaining entries are still processed
BatchCollect ==
  /\ pc \in {"done", "raised"}
  /\ Len(results) < bi
  /\ results' = Append(results, ResultEntry)
  /\ outcomes' = Append(outcomes,
                    [opened |-> opens, decoded |-> decodes,
                     raised |-> raised, writes |-> writes, d |-> d])
  /\ pc' = "idle"
  /\ UNCHANGED <<inputs, jpeg_dump_path_and_name, raw_DAB, densities,
                 dump_number, xi, yi, d, result, raised, disk, writes, scored,
                 batch, bi, T_x, DAB, shown, runs, lstsq, downstream>>

BatchNext ==
  \/ BatchLoad
  \/ ProcessOpenFail
  \/ ProcessOpen
  \/ DecodeFail
  \/ Prepare
  \/ ScanTile
  \/ ScanTileWriteFail
  \/ Return
  \/ ProcessSave
  \/ ProcessSaveFail
  \/ BatchCollect

BatchSpec == BatchInit /\ [][BatchNext]_vars

\* ----------------------------------------------------- the example cells
\* the weight maps the fit can return: up to MaxLen pixels, whole weights
WeightMaps ==
  UNION { [1..n -> {<<k, 1>> : k \in (-MaxWeight)..MaxWeight}] : n \in 1..MaxLen }

CellsInit ==
  /\ lstsq \in WeightMaps
  /\ T_x = <<>>
  /\ DAB = <<>>
  /\ shown = <<>>
  /\ runs = 0
  /\ NoBatch
  /\ NoDownstream
  /\ caller = "direct"
  /\ argv = NoDescriptor
  /\ opens = TRUE
  /\ decodes = TRUE
  /\ image = <<(<<Blue>>)>>
  /\ stride = 1
  /\ process_raw = TRUE
  /\ raw_threshold = DefaultRawThreshold
  /\ raw_pc = DefaultRawPc
  /\ jpeg_dump_path_and_name = DefaultPrefix
  /\ pc = "cells"
  /\ raw_DAB = <<>>
  /\ densities = <<>>
  /\ dump_number = 0
  /\ xi = 0
  /\ yi = 0
  /\ d = <<>>
  /\ result = <<>>
  /\ raised = ""
  /\ disk = {}
  /\ writes = <<>>
  /\ scored = <<>>

\* T_x = np.linalg.lstsq(...); DAB = normalise(T_x[0][0].copy()): normalise
\* works on a copy, the row of T_x keeps the fitted weights
FitCell ==
  /\ pc = "cells"
  /\ T_x = <<>>
  /\ T_x' = lstsq
  /\ DAB' = normalise(lstsq)
  /\ UNCHANGED <<inputs, jpeg_dump_path_and_name, pc, raw_DAB, densities,
                 dump_number, xi, yi, d, result, raised, disk, writes, scored,
                 batch, bi, results, outcomes, shown, runs, lstsq, downstream>>

\* _DAB = T_x[0][0].reshape(...) is a view of the row of T_x;
\* imshow(normalise(_DAB)): "F +=" and "F /=" write through the view, the
\* array returned is the array passed
DisplayCell ==
  /\ pc = "cells"
  /\ T_x # <<>>
  /\ runs < MaxRuns
  /\ T_x' = normalise(T_x)
  /\ shown' = Append(shown, normalise(T_x))
  /\ runs' = runs + 1
  /\ UNCHANGED <<inputs, jpeg_dump_path_and_name, pc, raw_DAB, densities,
                 dump_number, xi, yi, d, result, raised, disk, writes, scored,
                 batch, bi, results, outcomes, DAB, lstsq, downstream>>

CellsNext ==
  \/ FitCell
  \/ DisplayCell

CellsSpec == CellsInit /\ [][CellsNext]_vars

\* ------------------------------------------------------ the unmixing solve
\* responses has 5 rows (DAB, Hematoxylin, Light Source, Brain Transmission,
\* Eosin) and 3 columns (the colour channels)
Chromophores == 1..5

\* np.linalg.lstsq(responses.T, T_I.T, rcond=None) solves, for every pixel,
\* 3 equations in 5 unknowns and returns the solution of minimum norm.  For
\* a pixel that is the mixture w of the rows of responses, that solution is
\* P w with P = pinv(responses.T) responses.T.  The entries of P for the
\* response matrix of the source, times 1000 and rounded:
Projection ==
  << <<702, -73, 435, -119, -26>>,
     <<-73, 240, 99, 354, 204>>,
     <<435, 99, 365, 177, 40>>,
     <<-119, 354, 177, 755, -119>>,
     <<-26, 204, 40, -119, 938>> >>

\* the weights (in 1/1000) lstsq returns for the pixel of mixture w
LstsqOfMixture(w) ==
  [j \in Chromophores |->
     w[1] * Projection[1][j] + w[2] * Projection[2][j] + w[3] * Projection[3][j]
     + w[4] * Projection[4][j] + w[5] * Projection[5][j]]

\* the mixtures of a pixel and the synthetic images
Mixtures == [Chromophores -> 0..MaxCoeff]
SyntheticImages == UNION { [1..n -> Mixtures] : n \in 1..MaxPixels }

FitInit ==
  /\ mix \in SyntheticImages
  /\ weights = <<>>
  /\ NoCall
  /\ NoBatch
  /\ NoCells
  /\ NoStats
  /\ NoTrain
  /\ NoRest

\* T_x = np.linalg.lstsq(responses.T, T_I.T, rcond=None): every pixel column
\* is solved on its own
Solve ==
  /\ weights = <<>>
  /\ mix # <<>>
  /\ weights' = [i \in 1..Len(mix) |-> LstsqOfMixture(mix[i])]
  /\ UNCHANGED <<upstream, mix, statVars, trainVars, remaining>>

FitNext ==
  \/ Solve

FitSpec == FitInit /\ [][FitNext]_vars

\* ------------------------------------------------------- slide statistics
\* Labels used for each condition
CONTROL == "C"
AD == "AD"
PD == "PD"
MSA == "MSA"

\* the keys of jsons; the case and the slide get_case_and_slide returns for
\* a key are part of the input
Files ==
  << [case |-> "c1", slide |-> "A"], [case |-> "c2", slide |-> "A"],
     [case |-> "c3", slide |-> "B"], [case |-> "c4", slide |-> "A"],
     [case |-> "c5", slide |-> "A"] >>
\* case_conditions: the case "c5" is not in it
case_conditions ==
  [c \in {"c1", "c2", "c3", "c4"} |->
     IF c = "c1" THEN CONTROL ELSE IF c = "c2" THEN AD
     ELSE IF c = "c3" THEN PD ELSE MSA]
\* the columns of the reloaded density grids
StatCols == 2

\* the values jsons can hold for a key: a density grid and a count
Entries(f) ==
  UNION { { [file |-> f, densities |-> Zeros(rows, StatCols), roi_count |-> n] :
              n \in {0, 1, rows * StatCols, rows * StatCols + 1} } :
          rows \in 1..MaxGrid }
\* the dictionaries with up to MaxEntries of the keys, in key order
RECURSIVE JsonsFrom(_, _)
JsonsFrom(k, n) ==
  IF k > Len(Files) \/ n = 0 THEN {<<>>}
  ELSE JsonsFrom(k + 1, n)
       \cup {<<e>> \o rest : e \in Entries(Files[k]), rest \in JsonsFrom(k + 1, n - 1)}

StatsInit ==
  /\ jsons \in JsonsFrom(1, MaxEntries) \ {<<>>}
  /\ slide_filter \in {"None", "A"}
  /\ norm \in BOOLEAN
  /\ si = 0
  /\ control = <<>>
  /\ ad = <<>>
  /\ pd = <<>>
  /\ msa = <<>>
  /\ NoCall
  /\ NoBatch
  /\ NoCells
  /\ NoFit
  /\ NoTrain
  /\ NoRest

\* mutant: the score is normalised by the rows of the grid alone
CellCountRows(arr) == Len(arr)
\* arr.shape[0] * arr.shape[1]
CellCount(arr) == Len(arr) * Len(arr[1])

\* h = jsons[file]["roi_count"] / n
Score(e, nrm) == <<e.roi_count, IF nrm THEN CellCount(e.densities) ELSE 1>>

\* one iteration of "for file in jsons.keys()"
StatVisit ==
  /\ si < Len(jsons)
  /\ si' = si + 1
  /\ LET e == jsons[si + 1]
         case == e.file.case
         slide == e.file.slide
         h == Score(e, norm)
         known == case \in DOMAIN case_conditions
         skip == slide_filter # "None" /\ slide # slide_filter
         condition == case_conditions[case]
     IN  IF skip \/ ~known
           THEN UNCHANGED <<control, ad, pd, msa>>
           ELSE /\ control' = IF condition = CONTROL THEN Append(control, h)
                              ELSE control
                /\ ad' = IF condition = AD THEN Append(ad, h) ELSE ad
                /\ pd' = IF condition = PD THEN Append(pd, h) ELSE pd
                /\ msa' = IF condition \notin {CONTROL, AD, PD}
                            THEN Append(msa, h) ELSE msa
  /\ UNCHANGED <<upstream, fitVars, trainVars, remaining, jsons, slide_filter, norm>>

StatsNext ==
  \/ StatVisit

StatsSpec == StatsInit /\ [][StatsNext]_vars

\* ------------------------------------------- training data preparation
\* the side of a training square and the crops sampled per iteration
TileSide == 512
CropsPerIteration == 25

\* crops the segmentation can have left below dump_path, in the order the
\* two globs list them: full tiles, boundary tiles, a square corner tile
DumpCrops ==
  << [s |-> "Controls", base |-> <<"c0", ".jpg">>, shape |-> <<512, 512>>],
     [s |-> "Controls", base |-> <<"c1", ".jpg">>, shape |-> <<100, 512>>],
     [s |-> "PD", base |-> <<"c0", ".jpg">>, shape |-> <<512, 512>>],
     [s |-> "PD", base |-> <<"p1", ".jpg">>, shape |-> <<512, 37>>],
     [s |-> "PD", base |-> <<"p2", ".jpg">>, shape |-> <<88, 88>>] >>

\* n files an earlier preparation left in train/{s}
OldFiles(s, n) ==
  { [s |-> s, base |-> <<"old">> \o Digits(i) \o <<".jpg">>] : i \in 1..n }

\* control slides at 2 microns per pixel: file name and shape
ControlSlides ==
  << [filename |-> "C1.svs", yy |-> 1536, xx |-> 1024],
     [filename |-> "C2.svs", yy |-> 600, xx |-> 2048],
     [filename |-> "C3.svs", yy |-> 512, xx |-> 2048] >>
\* the lists glob can return for the control folder
ControlLists ==
  { <<ControlSlides[1]>>, <<ControlSlides[1], ControlSlides[2]>>,
    <<ControlSlides[3]>>, <<ControlSlides[2], ControlSlides[3]>> }

\* len(glob(f"{training_dump_path}/train/{s}/*.jpg"))
CountJpg(files, s) == Cardinality({f \in files : f.s = s})

TrainInit ==
  /\ dumped \in SubsetsUpTo({DumpCrops[i] : i \in 1..Len(DumpCrops)}, MaxCrops)
  /\ old_controls \in BOOLEAN
  /\ \E n \in {0, 1, 26, MaxOldPD} :
       train = OldFiles("Controls", IF old_controls THEN 1 ELSE 0)
               \cup OldFiles("PD", n)
  /\ control_file_list \in ControlLists
  /\ tpc = "prepare"
  /\ todo = <<>>
  /\ copies = <<>>
  /\ l_control = 0
  /\ l_test = 0
  /\ control_injection_index = 0
  /\ control_slide = <<>>
  /\ written = 0
  /\ im = <<>>
  /\ NoCall
  /\ NoBatch
  /\ NoCells
  /\ NoFit
  /\ NoStats
  /\ NoRest

\* skip = len(glob(f"{training_dump_path}/train/Controls/*.jpg")) > 0
CopySkip ==
  /\ tpc = "prepare"
  /\ CountJpg(train, "Controls") > 0
  /\ tpc' = "count"
  /\ UNCHANGED <<upstream, fitVars, statVars, remaining, dumped, train, old_controls,
                 todo, copies, l_control, l_test, control_file_list,
                 control_injection_index, control_slide, written, im>>

\* if not skip: the loops over "Controls", "PD" and the jpgs of each
CopyBegin ==
  /\ tpc = "prepare"
  /\ CountJpg(train, "Controls") = 0
  /\ LET Dumped(c) == c \in dumped
     IN  todo' = SelectSeq(DumpCrops, Dumped)
  /\ tpc' = "copy"
  /\ UNCHANGED <<upstream, fitVars, statVars, remaining, dumped, train, old_controls,
                 copies, l_control, l_test, control_file_list,
                 control_injection_index, control_slide, written, im>>

\* mutant: the shape of the crop is not looked at
CopyFileAnyShape ==
  /\ tpc = "copy"
  /\ todo # <<>>
  /\ LET file == Head(todo)
     IN  \E to \in {"train", "val"} :
           /\ copies' = Append(copies,
                              [s |-> file.s, base |-> file.base, to |-> to])
           /\ train' = IF to = "train"
                         THEN train \cup {[s |-> file.s, base |-> file.base]}
                         ELSE train
  /\ todo' = Tail(todo)
  /\ UNCHANGED <<upstream, fitVars, statVars, remaining, dumped, old_controls, tpc,
                 l_control, l_test, control_file_list,
                 control_injection_index, control_slide, written, im>>
\* one jpg of the copy loops: a crop with f.shape[0] == f.shape[1] goes to
\* train/{s}/ when random.random() > 0.4 and to val/{s}/ otherwise
CopyFile ==
  /\ tpc = "copy"
  /\ todo # <<>>
  /\ LET file == Head(todo)
     IN  IF file.shape[1] = file.shape[2]
           THEN \E to \in {"train", "val"} :
                  /\ copies' = Append(copies,
                                     [s |-> file.s, base |-> file.base, to |-> to])
                  /\ train' = IF to = "train"
                                THEN train \cup {[s |-> file.s, base |-> file.base]}
                                ELSE train
           ELSE UNCHANGED <<copies, train>>
  /\ todo' = Tail(todo)
  /\ UNCHANGED <<upstream, fitVars, statVars, remaining, dumped, old_controls, tpc,
                 l_control, l_test, control_file_list,
                 control_injection_index, control_slide, written, im>>

\* l_control = len(glob(.../train/Controls/*.jpg)); l_test = len(glob(
\* .../train/PD/*.jpg)) at the end of the copy cell
Count ==
  /\ tpc = "count" \/ (tpc = "copy" /\ todo = <<>>)
  /\ l_control' = CountJpg(train, "Controls")
  /\ l_test' = CountJpg(train, "PD")
  /\ tpc' = "loop"
  /\ UNCHANGED <<upstream, fitVars, statVars, remaining, dumped, train, old_controls,
                 todo, copies, control_file_list, control_injection_index,
                 control_slide, written, im>>

\* while l_test > l_control: the test fails
LoopExit ==
  /\ tpc = "loop"
  /\ ~(l_test > l_control)
  /\ tpc' = "done"
  /\ UNCHANGED <<upstream, fitVars, statVars, remaining, dumped, train, old_controls,
                 todo, copies, l_control, l_test, control_file_list,
                 control_injection_index, control_slide, written, im>>

\* x_pass, y_pass = int(np.ceil(xx / 512)), int(np.ceil(yy / 512))
Passes512(n) == CeilDiv(n, TileSide)

\* random.shuffle, the slide at the top of the list is read, and
\* np.random.randint(0, x_pass - 1, 25), np.random.randint(0, y_pass - 1, 25)
\* draw the tile indices
LoopSample ==
  /\ tpc = "loop"
  /\ l_test > l_control
  /\ \E i \in 1..Len(control_file_list) :
       /\ control_slide' = control_file_list[i]
       /\ Passes512(control_file_list[i].xx) - 1 > 0
       /\ Passes512(control_file_list[i].yy) - 1 > 0
  /\ written' = 0
  /\ tpc' = "crops"
  /\ UNCHANGED <<upstream, fitVars, statVars, remaining, dumped, train, old_controls,
                 todo, copies, l_control, l_test, control_file_list,
                 control_injection_index, im>>

\* np.random.randint(0, high, 25) raises ValueError when high <= 0: the
\* slide sampled has a single column or a single row of tiles
LoopSampleValueError ==
  /\ tpc = "loop"
  /\ l_test > l_control
  /\ \E i \in 1..Len(control_file_list) :
       /\ control_slide' = control_file_list[i]
       /\ \/ Passes512(control_file_list[i].xx) - 1 <= 0
          \/ Passes512(control_file_list[i].yy) - 1 <= 0
  /\ tpc' = "raised"
  /\ UNCHANGED <<upstream, fitVars, statVars, remaining, dumped, train, old_controls,
                 todo, copies, l_control, l_test, control_file_list,
                 control_injection_index, written, im>>

\* f"CI_{filename}_{control_injection_index}.jpg"
InjectionName(filename, index) ==
  <<"CI_", filename, "_">> \o Digits(index) \o <<".jpg">>

\* one pair (x, y) of the zip: the crop slide[y*512 : y*512+512,
\* x*512 : x*512+512, :] is written to train/Controls
InjectCrop ==
  /\ tpc = "crops"
  /\ written < CropsPerIteration
  /\ \E x \in 0..(Passes512(control_slide.xx) - 2) :
       \E y \in 0..(Passes512(control_slide.yy) - 2) :
         im' = [x |-> x, y |-> y,
                rows |-> Min(y * TileSide + TileSide, control_slide.yy) - y * TileSide,
                cols |-> Min(x * TileSide + TileSide, control_slide.xx) - x * TileSide]
  /\ train' = train \cup
               {[s |-> "Controls",
                 base |-> InjectionName(control_slide.filename,
                                        control_injection_index)]}
  /\ control_injection_index' = control_injection_index + 1
  /\ written' = written + 1
  /\ UNCHANGED <<upstream, fitVars, statVars, remaining, dumped, old_controls, tpc, todo,
                 copies, l_control, l_test, control_file_list, control_slide>>

\* the recount that ends an iteration of the while loop
Recount ==
  /\ tpc = "crops"
  /\ written = CropsPerIteration
  /\ l_control' = CountJpg(train, "Controls")
  /\ l_test' = CountJpg(train, "PD")
  /\ tpc' = "loop"
  /\ UNCHANGED <<upstream, fitVars, statVars, remaining, dumped, train, old_controls,
                 todo, copies, control_file_list, control_injection_index,
                 control_slide, written, im>>

TrainNext ==
  \/ CopySkip
  \/ CopyBegin
  \/ CopyFile
  \/ Count
  \/ LoopExit
  \/ LoopSample
  \/ LoopSampleValueError
  \/ InjectCrop
  \/ Recount

TrainSpec == TrainInit /\ [][TrainNext]_vars

\* ---------------------------------------- split_cases_into_train_and_test
\* a in b of two Python strings (sequences of characters)
Contains(a, b) ==
  \E i \in 0..(Len(b) - Len(a)) : SubSeq(b, i + 1, i + Len(a)) = a

\* the condition strings of a case to condition map
Conditions ==
  { <<"C">>, <<"P", "D">>, <<"A", "D">>, <<"M", "S", "A">>,
    <<"P", "D", "/", "A", "D">> }
\* the key of the i-th item: the keys of a dictionary are distinct
CaseKey(i) == <<"case">> \o Digits(i)
\* the dictionaries of n items, as the sequence case_cond.items() walks
CaseMaps(n) ==
  { [i \in 1..n |-> [key |-> CaseKey(i), value |-> v[i]]] :
      v \in [1..n -> Conditions] }

SplitInit ==
  /\ \E n \in 0..MaxCases : case_cond \in CaseMaps(n)
  /\ split_condition \in {<<"C">>, <<"P", "D">>, <<"A", "D">>}
  /\ ki = 0
  /\ split_train = <<>>
  /\ split_test = <<>>
  /\ switch = FALSE
  /\ NoCall
  /\ NoBatch
  /\ NoCells
  /\ NoFit
  /\ NoStats
  /\ NoTrain
  /\ NoData
  /\ NoPaths

\* mutant: the switch is never turned
SplitVisitNoSwitch ==
  /\ ki < Len(case_cond)
  /\ ki' = ki + 1
  /\ LET item == case_cond[ki + 1]
     IN  IF ~Contains(split_condition, item.value)
           THEN UNCHANGED <<split_train, split_test, switch>>
           ELSE /\ split_train' = IF switch THEN Append(split_train, item.key)
                                             ELSE split_train
                /\ split_test' = IF switch THEN split_test
                                            ELSE Append(split_test, item.key)
                /\ UNCHANGED switch
  /\ UNCHANGED <<upstream, fitVars, statVars, trainVars, dataVars, pathVars,
                 case_cond, split_condition>>
\* one item of the loop over case_cond.items()
SplitVisit ==
  /\ ki < Len(case_cond)
  /\ ki' = ki + 1
  /\ LET item == case_cond[ki + 1]
     IN  IF ~Contains(split_condition, item.value)
           THEN UNCHANGED <<split_train, split_test, switch>>
           ELSE /\ split_train' = IF switch THEN Append(split_train, item.key)
                                             ELSE split_train
                /\ split_test' = IF switch THEN split_test
                                            ELSE Append(split_test, item.key)
                /\ switch' = ~switch
  /\ UNCHANGED <<upstream, fitVars, statVars, trainVars, dataVars, pathVars,
                 case_cond, split_condition>>

SplitNext == SplitVisit

SplitSpec == SplitInit /\ [][SplitNext]_vars

\* -------------------------------------------- directories of the setup cell
\* config["positive_case_folder"], config["negative_case_folder"]
positive_case_folder == "PD"
negative_case_folder == "Controls"
CaseFolders == <<positive_case_folder, negative_case_folder>>
\* config["slide_index_filter"]
slide_index_filter == "17_A"

\* strings config["dump_path"] can be set to, as token sequences: relative
\* and absolute, with and without the slash at the end
DumpPathStrings ==
  { <<"dump", "/">>, <<"dump">>,
    <<"/", "scratch", "/", "dump", "/">>, <<"/", "scratch", "/", "dump">> }

\* the components of a path string: the runs of tokens between slashes;
\* repeated slashes and a slash at the end name no component
RECURSIVE Split(_, _, _)
Split(path, cur, acc) ==
  IF path = <<>> THEN (IF cur = <<>> THEN acc ELSE Append(acc, cur))
  ELSE IF Head(path) = "/"
    THEN Split(Tail(path), <<>>, IF cur = <<>> THEN acc ELSE Append(acc, cur))
  ELSE Split(Tail(path), Append(cur, Head(path)), acc)
\* the directory a path string names to the file system
Directory(path) ==
  [abs |-> path # <<>> /\ path[1] = "/", parts |-> Split(path, <<>>, <<>>)]
\* pathlib.Path(path).mkdir(parents=True, exist_ok=True)
Mkdir(dirs, path) ==
  LET dir == Directory(path)
  IN  dirs \cup { [abs |-> dir.abs, parts |-> SubSeq(dir.parts, 1, k)] :
                    k \in 1..Len(dir.parts) }

\* the .svs files the globs can find, in the order the loops meet them
SvsFiles ==
  << [cases |-> "PD", dir |-> 1, index |-> "17_A"],
     [cases |-> "PD", dir |-> 1, index |-> "12_A"],
     [cases |-> "PD", dir |-> 2, index |-> "17_A"],
     [cases |-> "Controls", dir |-> 1, index |-> "17_A"],
     [cases |-> "Controls", dir |-> 2, index |-> "17_A"],
     [cases |-> "Controls", dir |-> 2, index |-> "12_A"] >>
SvsPath(f) ==
  <<search_directories[f.dir], "/", f.cases, "/", "PD788", "/", "/",
    "PD788-", f.index, ".svs">>

PathInit ==
  /\ config \in [dump_path : DumpPathStrings, simulated : BOOLEAN,
                  simulation_n : 1..MaxSim]
  /\ made = {}
  /\ listed = <<>>
  /\ ppc = "setup"
  /\ pi = 0
  /\ target = <<>>
  /\ NoCall
  /\ NoBatch
  /\ NoCells
  /\ NoFit
  /\ NoStats
  /\ NoTrain
  /\ NoSplit
  /\ NoData

\* for pth in [positive_case_folder, negative_case_folder]:
\*     pathlib.Path(config["dump_path"] + pth).mkdir(...)
MakeDirectories ==
  /\ ppc = "setup"
  /\ made' = Mkdir(Mkdir(made, config.dump_path \o <<CaseFolders[1]>>),
                   config.dump_path \o <<CaseFolders[2]>>)
  /\ ppc' = "enumerate"
  /\ UNCHANGED <<upstream, fitVars, statVars, trainVars, splitVars, dataVars,
                 config, listed, pi, target>>

\* the loops over the case folders, the search directories and the .svs
\* files below them: a file is listed when its path holds the slide index
EnumerateSlides ==
  /\ ppc = "enumerate"
  /\ ~config.simulated
  /\ \E found \in SubsetsUpTo({SvsFiles[i] : i \in 1..Len(SvsFiles)}, MaxSlides) :
       LET Listed(f) == f \in found /\ \E i \in 1..Len(SvsPath(f)) :
                                         SvsPath(f)[i] = slide_index_filter
           files == SelectSeq(SvsFiles, Listed)
       IN  listed' = [i \in 1..Len(files) |->
                        [file |-> SvsPath(files[i]),
                         condition |-> files[i].cases, sim |-> FALSE]]
  /\ ppc' = "batch"
  /\ UNCHANGED <<upstream, fitVars, statVars, trainVars, splitVars, dataVars,
                 config, made, pi, target>>

\* the loop over np.arange(0, simulation_n): the condition is drawn at
\* random and the slide is generated below dump_path
EnumerateSimulated ==
  /\ ppc = "enumerate"
  /\ config.simulated
  /\ \E drawn \in [1..config.simulation_n -> {positive_case_folder,
                                                negative_case_folder}] :
       listed' = [i \in 1..config.simulation_n |->
                    [file |-> config.dump_path
                              \o <<"/", IF drawn[i] = "PD" THEN "PD" ELSE "PDC">>
                              \o Digits(i - 1) \o <<"-17_A", ".png">>,
                     condition |-> drawn[i], sim |-> TRUE]]
  /\ ppc' = "batch"
  /\ UNCHANGED <<upstream, fitVars, statVars, trainVars, splitVars, dataVars,
                 config, made, pi, target>>

\* process(argv): the directory of f'{config["dump_path"]}/{cnd}/{file_name}'
ProcessDirectory ==
  /\ ppc = "batch"
  /\ pi < Len(listed)
  /\ target' = Directory(config.dump_path \o <<"/", listed[pi + 1].condition>>)
  /\ pi' = pi + 1
  /\ UNCHANGED <<upstream, fitVars, statVars, trainVars, splitVars, dataVars,
                 config, made, listed, ppc>>

PathNext ==
  \/ MakeDirectories
  \/ EnumerateSlides
  \/ EnumerateSimulated
  \/ ProcessDirectory

PathSpec == PathInit /\ [][PathNext]_vars

\* -------------------------------------------------------------- ABetaDataset
\* slide_labels = ["1_A", "10_A", "14_A", "15_A", "09_A", "05_A"]
slide_labels ==
  << <<"1", "_", "A">>, <<"1", "0", "_", "A">>, <<"1", "4", "_", "A">>,
     <<"1", "5", "_", "A">>, <<"0", "9", "_", "A">>, <<"0", "5", "_", "A">> >>

\* the names of the cases
CaseNames == { <<"C", "1">>, <<"A", "1">>, <<"A", "1", "2">> }
\* the slides a case can have a JSON for: three of the labels and one
\* slide that is not among them; the number is the value of the density
\* map in the file
JsonSlides ==
  { [slide |-> <<"1", "_", "A">>, value |-> 1],
    [slide |-> <<"1", "0", "_", "A">>, value |-> 2],
    [slide |-> <<"0", "5", "_", "A">>, value |-> 3],
    [slide |-> <<"1", "1", "_", "A">>, value |-> 4] }
\* the JSON files: f"{root}/{case}-{slide}.json" with its density map
JsonFiles ==
  { [name |-> c \o <<"-">> \o j.slide \o <<".json">>, value |-> j.value] :
      c \in CaseNames, j \in JsonSlides }

\* a.startswith(b) of two strings
StartsWith(a, b) == Len(b) <= Len(a) /\ SubSeq(a, 1, Len(b)) = b
\* glob(f"{root}/{case}*.json")
GlobCase(files, case) == {f \in files : StartsWith(f.name, case)}

\* np.zeros((slide_size, slide_size)) with one channel in front
ZeroChannel(n) == [r \in 1..n |-> [c \in 1..n |-> 0]]
\* resize(density_map, (slide_size, slide_size)): the density maps of the
\* files are constant, and a constant map is resized to a constant map
Resized(value, n) == [r \in 1..n |-> [c \in 1..n |-> value]]

\* the lists of a length over a set
RECURSIVE SeqsOfLen(_, _)
SeqsOfLen(S, n) ==
  IF n = 0 THEN {<<>>}
  ELSE {<<x>> \o l : x \in S, l \in SeqsOfLen(S, n - 1)}

DataInit ==
  /\ \E n \in 0..MaxCaseList : cases \in SeqsOfLen(CaseNames, n)
  /\ root \in SubsetsUpTo(JsonFiles, MaxFiles)
  /\ \/ conds = [supplied |-> FALSE, map |-> <<>>]
     \/ \E cc \in [CaseNames -> {<<"C">>, <<"A", "D">>}] :
          conds = [supplied |-> TRUE, map |-> cc]
  /\ ds_data = <<>>
  /\ targets = <<>>
  /\ class_index = -1
  /\ dpc = "init"
  /\ NoCall
  /\ NoBatch
  /\ NoCells
  /\ NoFit
  /\ NoStats
  /\ NoTrain
  /\ NoSplit
  /\ NoPaths

\* one case of the loop in __init__: class_index is assigned only when
\* case_conditions is given; each channel takes the first globbed file
\* whose path holds the label, in whatever order glob lists the files;
\* self.targets.append(class_index) raises UnboundLocalError when
\* class_index was never assigned
LoadCase ==
  /\ dpc = "init"
  /\ Len(ds_data) < Len(cases)
  /\ LET case == cases[Len(ds_data) + 1]
         files == GlobCase(root, case)
         Found(i) == {f \in files : Contains(slide_labels[i], f.name)}
     IN  /\ class_index' =
              IF conds.supplied
                THEN (IF Contains(<<"A", "D">>, conds.map[case]) THEN 1 ELSE 0)
                ELSE class_index
         /\ \E slide_size \in 1..MaxSlideSize :
              LET Channels(i) ==
                    IF Found(i) = {} THEN {ZeroChannel(slide_size)}
                    ELSE {Resized(find_file.value, slide_size) :
                            find_file \in Found(i)}
              IN  \E c1 \in Channels(1), c2 \in Channels(2), c3 \in Channels(3),
                     c4 \in Channels(4), c5 \in Channels(5), c6 \in Channels(6) :
                    ds_data' = Append(ds_data, <<c1, c2, c3, c4, c5, c6>>)
  /\ IF class_index' = -1
       THEN dpc' = "raised" /\ UNCHANGED targets
       ELSE targets' = Append(targets, class_index') /\ UNCHANGED dpc
  /\ UNCHANGED <<upstream, fitVars, statVars, trainVars, splitVars, pathVars,
                 cases, root, conds>>

\* self.data = torch.Tensor(self.data); self.targets = torch.Tensor(...)
FinishDataset ==
  /\ dpc = "init"
  /\ Len(ds_data) = Len(cases)
  /\ dpc' = "done"
  /\ UNCHANGED <<upstream, fitVars, statVars, trainVars, splitVars, pathVars,
                 cases, root, conds, ds_data, targets, class_index>>

DataNext ==
  \/ LoadCase
  \/ FinishDataset

DataSpec == DataInit /\ [][DataNext]_vars

\* =================================================================== claims
\* What the claims speak of, stated on the image and the parameters alone.
H == Len(image)
W == Len(image[1])
\* ceil(n / s): the least k with k * s >= n
Ceil(n, s) == CHOOSE k \in 0..n : k * s >= n /\ \A j \in 0..(k - 1) : j * s < n
GridRows == Ceil(H, stride)
GridCols == Ceil(W, stride)
Grid == (0..(GridRows - 1)) \X (0..(GridCols - 1))
\* the pixels (0-based row, column) of the tile at grid position <<gy, gx>>
TilePixels(g) ==
  {p \in (0..(H - 1)) \X (0..(W - 1)) :
     /\ g[1] * stride <= p[1] /\ p[1] < g[1] * stride + stride
     /\ g[2] * stride <= p[2] /\ p[2] < g[2] * stride + stride}
\* the tile's pixels whose raw signal is strictly below raw_threshold
TileMasked(g) ==
  {p \in TilePixels(g) : Less(raw_DAB[p[1] + 1][p[2] + 1], raw_threshold)}
\* the tile's activation fraction
TileFraction(g) == <<Cardinality(TileMasked(g)), Cardinality(TilePixels(g))>>
\* the grid position of a logged tile
GridOf(t) == <<t.y \div stride, t.x \div stride>>

FunctionReturned == d # <<>>
Ended == pc \in {"done", "raised"}

\* C1: when the function has returned, the density map it returned holds at
\* every grid position (yi, xi) the activation fraction of that tile,
\* included or not.
C1_DensityHoldsFraction ==
  FunctionReturned =>
    \A g \in Grid :
      /\ g[1] + 1 \in DOMAIN d
      /\ g[2] + 1 \in DOMAIN d[g[1] + 1]
      /\ SameValue(d[g[1] + 1][g[2] + 1], TileFraction(g))

\* C2: when the function has returned, the density map has shape
\* (ceil(H/S), ceil(W/S)) and the scan has evaluated exactly
\* ceil(H/S) * ceil(W/S) tiles, one per density-map cell; an image with
\* H <= S and W <= S gives one tile and a 1x1 map.
C2_GridShape ==
  FunctionReturned =>
    /\ Len(d) = GridRows
    /\ \A r \in 1..Len(d) : Len(d[r]) = GridCols
    /\ Len(scored) = GridRows * GridCols
    /\ \A g \in Grid :
         Cardinality({k \in 1..Len(scored) :
                        scored[k].yi = g[1] /\ scored[k].xi = g[2]}) = 1
    /\ \A k \in 1..Len(scored) : <<scored[k].yi, scored[k].xi>> \in Grid
    /\ (H <= stride /\ W <= stride) =>
         (Len(scored) = 1 /\ Len(d) = 1 /\ Len(d[1]) = 1)

\* C2 witness: a returned scan of an image whose height and width are not
\* multiples of the stride, with more than one tile
C2_Witness ==
  /\ FunctionReturned
  /\ H % stride # 0
  /\ W % stride # 0
  /\ Len(scored) > 1

\* the pixels a logged tile covers: rows [y, y + rows), columns [x, x + cols)
Covered(t) ==
  {p \in (0..(H - 1)) \X (0..(W - 1)) :
     /\ t.y <= p[1] /\ p[1] < t.y + t.rows
     /\ t.x <= p[2] /\ p[2] < t.x + t.cols}

\* C3: the tiles the scan evaluated have their origin on the stride grid and
\* the bounds [y, min(y+S, H)) x [x, min(x+S, W)); when the function has
\* returned every pixel of the image lies in exactly one of them.
C3_TilesPartitionImage ==
  /\ \A k \in 1..Len(scored) :
       /\ scored[k].y % stride = 0
       /\ scored[k].x % stride = 0
       /\ scored[k].rows = Min(scored[k].y + stride, H) - scored[k].y
       /\ scored[k].cols = Min(scored[k].x + stride, W) - scored[k].x
       /\ scored[k].rows >= 1
       /\ scored[k].cols >= 1
  /\ FunctionReturned =>
       \A p \in (0..(H - 1)) \X (0..(W - 1)) :
         Cardinality({k \in 1..Len(scored) : p \in Covered(scored[k])}) = 1

\* C3 witness: a returned scan with a full tile, a tile clipped at the
\* bottom, one clipped at the right and one clipped at both edges
C3_Witness ==
  /\ FunctionReturned
  /\ stride > 1
  /\ \E k \in 1..Len(scored) :
       scored[k].rows = stride /\ scored[k].cols = stride
  /\ \E k \in 1..Len(scored) :
       scored[k].rows < stride /\ scored[k].cols = stride
  /\ \E k \in 1..Len(scored) :
       scored[k].rows = stride /\ scored[k].cols < stride
  /\ \E k \in 1..Len(scored) :
       scored[k].rows < stride /\ scored[k].cols < stride

\* the crop of a logged tile has been written
CropWritten(t) == \E k \in 1..Len(writes) : writes[k].x = t.x /\ writes[k].y = t.y

\* C4: in raw mode a tile is included, and its crop is written, exactly when
\* the fraction of the tile's own pixels with raw signal < raw_threshold is
\* strictly greater than raw_pc.
C4_RawInclusion ==
  process_raw =>
    \A k \in 1..Len(scored) :
      LET t == scored[k]
          own == TileFraction(GridOf(t))
      IN  /\ t.included <=> Greater(own, raw_pc)
          /\ t.included <=> CropWritten(t)

\* C4 witness: raw mode has scored a boundary tile whose fraction equals
\* raw_pc exactly and excluded it, and has included another tile
C4_Witness ==
  /\ process_raw
  /\ \E k \in 1..Len(scored) :
       /\ SameValue(<<scored[k].count, scored[k].rows * scored[k].cols>>, raw_pc)
       /\ scored[k].rows * scored[k].cols < stride * stride
       /\ ~scored[k].included
       /\ ~CropWritten(scored[k])
  /\ \E k \in 1..Len(scored) : scored[k].included

\* defaults of the differential mode: threshold and pc
DefaultThreshold == <<175, 1000>>
DefaultPc == <<375, 10000>>

\* |channel0 - channel2| of colourmap_1d(c1, c2, DAB) - colourmap_1d(c1, c2, BT)
\* for c1 = (1, 1, 0) and c2 = (0, 0, 1), colourmap_1d interpolating linearly
\* between its two colours: 2 * |DAB - BT|
DiffAbs(raw) == IF IsNaN(raw) THEN NaN ELSE <<2 * Abs(raw[1]), raw[2]>>
\* the tile's pixels at which that difference exceeds threshold
TileHot(g) ==
  {p \in TilePixels(g) :
     Greater(DiffAbs(RawDAB(image)[p[1] + 1][p[2] + 1]), DefaultThreshold)}
\* a crop has been written for the tile at grid position g
GridCropWritten(g) ==
  \E k \in 1..Len(writes) :
    writes[k].y = g[1] * stride /\ writes[k].x = g[2] * stride

\* C5: in differential mode, once the call on a readable slide has ended, every tile of the
\* grid is included (its crop written) exactly when the fraction of its own
\* pixels with |channel0 - channel2| > threshold is strictly greater than pc.
C5_DifferentialInclusion ==
  (~process_raw /\ decodes /\ Ended) =>
    \A g \in Grid :
      GridCropWritten(g) <=>
        Greater(<<Cardinality(TileHot(g)), Cardinality(TilePixels(g))>>,
                DefaultPc)

\* C6: a call with process_raw=False on a readable slide ends without an exception and returns
\* a density map of the shape the raw-mode call returns, its crops named
\* prefix, index, ".jpg".
C6_DifferentialCompletes ==
  (~process_raw /\ decodes /\ Ended) =>
    /\ raised = ""
    /\ FunctionReturned
    /\ Len(d) = GridRows
    /\ \A r \in 1..Len(d) : Len(d[r]) = GridCols
    /\ \A k \in 1..Len(writes) :
         writes[k].path = jpeg_dump_path_and_name \o Digits(k - 1) \o <<".jpg">>

\* the logged tiles that were included, in the order of the scan
IncludedTiles == SelectSeq(scored, LAMBDA t : t.included)

\* C7: the scan visits the tiles with x ascending and, within one x, y
\* ascending; the k-th included tile of that order is the k-th write and
\* goes to prefix{k-1}.jpg; no path is written twice.
C7_DumpIndexOrder ==
  /\ \A i, j \in 1..Len(scored) :
       i < j => \/ scored[i].x < scored[j].x
                \/ scored[i].x = scored[j].x /\ scored[i].y < scored[j].y
  /\ Len(writes) = Len(IncludedTiles)
  /\ dump_number = Len(writes)
  /\ \A k \in 1..Len(writes) :
       /\ writes[k].x = IncludedTiles[k].x
       /\ writes[k].y = IncludedTiles[k].y
       /\ writes[k].path = jpeg_dump_path_and_name \o Digits(k - 1) \o <<".jpg">>
  /\ \A i, j \in 1..Len(writes) : i # j => writes[i].path # writes[j].path

\* C7 witness: a returned scan that wrote two crops and skipped a tile in
\* between the two
C7_Witness ==
  /\ FunctionReturned
  /\ Len(writes) = 2
  /\ \E i, j, k \in 1..Len(scored) :
       /\ i < j /\ j < k
       /\ scored[i].included /\ ~scored[j].included /\ scored[k].included

\* the crop files of the slide below the output tree
CropFiles ==
  {f \in disk : \E n \in 0..(H * W) : f.path = CropPath(jpeg_dump_path_and_name, n)}

\* C8: for a slide process has processed, the number of included tiles, the
\* number of crop files of the slide and the ROI count persisted with the
\* slide's density map are equal.
C8_RoiCountPersisted ==
  (caller = "process" /\ opens /\ pc = "done") =>
    /\ Cardinality(CropFiles) = Len(IncludedTiles)
    /\ \E f \in disk :
         /\ f.path = DensityPath(argv.condition, Basename(argv.file))
         /\ "roi_count" \in DOMAIN f.data
         /\ f.data.roi_count = Len(IncludedTiles)

\* C9: every crop written is the sub-array of the slide image over the
\* bounds that were scored for its tile, and that is what the file holds.
C9_CropIsImageTile ==
  \A k \in 1..Len(writes) :
    \E j \in 1..Len(scored) :
      LET t == scored[j]
      IN  /\ t.included
          /\ t.x = writes[k].x
          /\ t.y = writes[k].y
          /\ writes[k].data =
               [r \in 1..t.rows |-> [c \in 1..t.cols |-> image[t.y + r][t.x + c]]]
          /\ [path |-> writes[k].path, data |-> writes[k].data] \in disk

\* C9 witness: a crop of a tile clipped at both edges next to a crop of a
\* full tile, the image not being uniform
C9_Witness ==
  /\ \E k \in 1..Len(writes) :
       /\ Len(writes[k].data) < stride
       /\ Len(writes[k].data[1]) < stride
  /\ \E k \in 1..Len(writes) :
       /\ Len(writes[k].data) = stride
       /\ Len(writes[k].data[1]) = stride
  /\ stride > 1

\* C10: when the slide fails to open, process writes no crop and no density
\* file: the step that handles the failure leaves the output tree as it
\* was, and no file of this run is ever there.
C10_OpenFailureWritesNothing ==
  /\ [][(pc = "open" /\ ~opens) => (disk' = disk /\ writes' = writes)]_vars
  /\ [](~opens => (writes = <<>> /\ disk \subseteq {StaleDensity(argv)}))

\* C10 witness: process has returned for a slide that failed to open, the
\* density file of an earlier run still in place
C10_Witness ==
  /\ caller = "process"
  /\ ~opens
  /\ pc = "done"
  /\ result = argv.file
  /\ disk = {StaleDensity(argv)}


\* ------------------------------------------------------------ batch claims
\* the batch call has returned its list
BatchDone == pc = "idle" /\ bi = Len(batch) /\ Len(results) = Len(batch)
\* the calls of process that have finished
Collected == 1..Len(outcomes)
FailedToOpen(i) == ~outcomes[i].opened
Succeeded(i) == outcomes[i].opened /\ outcomes[i].raised = ""
\* what the entry of slide i in the result list says about the slide
Marker(i) ==
  IF results[i].kind = "exception" THEN "exception"
  ELSE IF results[i].value = batch[i].file THEN "path"
  ELSE "other"

\* C11: the result list tells a slide that failed to open from a slide that
\* was processed successfully: the entry of a failed slide never reads like
\* the entry of a successful one, so a batch of three with one failure is
\* reported as 2 successes and 1 failure.
C11_ReportDistinguishesFailure ==
  \A i \in Collected : \A j \in Collected :
    (FailedToOpen(i) /\ Succeeded(j)) => Marker(i) # Marker(j)

\* C12: the batch never aborts on slides that fail to open: process raises
\* nothing for such a slide (the call returns, its entry of the list is a
\* returned value), the step after its return puts the entry in the list and
\* frees the loop for the next slide, and between calls every slide handed
\* to process so far has its own entry.
C12_OpenFailureNeverAborts ==
  /\ [](\A i \in Collected :
          FailedToOpen(i) => (outcomes[i].raised = "" /\ results[i].kind = "value"))
  /\ [][(pc = "open" /\ ~opens) => (pc' = "done" /\ raised' = "")]_vars
  /\ [][(pc = "done" /\ ~opens)
          => (pc' = "idle" /\ Len(results') = Len(results) + 1)]_vars
  /\ [](pc = "idle" => Len(results) = bi)

\* a slide failed to open and a later slide of the list had its crops written
C12_Witness ==
  /\ BatchDone
  /\ \E i \in Collected : \E j \in Collected :
       /\ i < j
       /\ FailedToOpen(i)
       /\ Succeeded(j)
       /\ outcomes[j].writes # <<>>

\* C13: an exception raised while decoding a slide that opened is caught by
\* process, which returns the slide path instead of propagating it.
C13_DecodeFailureCaught ==
  (caller = "process" /\ opens /\ ~decodes /\ Ended)
    => (pc = "done" /\ raised = "" /\ result = argv.file)

\* the crop and density files of slide i that are on disk
FilesOnDisk(i) ==
  {f \in disk :
     \/ \E w \in 1..Len(outcomes[i].writes) : f.path = outcomes[i].writes[w].path
     \/ f.path = DensityPath(batch[i].condition, Basename(batch[i].file))}
WriteFailed(i) == outcomes[i].raised = "OSError"

\* C14: a failed write of a crop or of the density file is fatal to that
\* slide only: the slide's crops are gone from disk or its entry of the
\* result list flags it (it is not the entry of a processed slide), and the
\* step after the failure puts that entry in the list and frees the loop for
\* the remaining slides.
C14_WriteFailureFatalToSlideOnly ==
  /\ [](\A i \in Collected :
          WriteFailed(i) => (FilesOnDisk(i) = {} \/ Marker(i) = "exception"))
  /\ [][(pc = "raised" /\ raised = "OSError")
          => (pc' = "idle" /\ Len(results') = Len(results) + 1)]_vars
  /\ [](pc = "idle" => Len(results) = bi)

\* a write failed after a crop of the slide was written, and a later slide
\* was processed to its end
C14_Witness ==
  /\ BatchDone
  /\ \E i \in Collected : \E j \in Collected :
       /\ i < j
       /\ WriteFailed(i)
       /\ outcomes[i].writes # <<>>
       /\ Succeeded(j)

\* the paths the call for slide i wrote
Written(i) ==
  {outcomes[i].writes[w].path : w \in 1..Len(outcomes[i].writes)}
  \cup (IF Succeeded(i)
          THEN {DensityPath(batch[i].condition, Basename(batch[i].file))}
          ELSE {})

\* C15: two distinct slides of a batch never write the same file.
C15_OutputPathsDisjoint ==
  \A i \in Collected : \A j \in Collected :
    i # j => Written(i) \cap Written(j) = {}

\* the tile origins <<x, y>> in the order of the scan (x is the outer loop)
ScanOrder(img, s) ==
  LET xs == Arange(Len(img[1]), s)
      ys == Arange(Len(img), s)
  IN  [k \in 1..(Len(xs) * Len(ys)) |->
         <<xs[((k - 1) \div Len(ys)) + 1], ys[((k - 1) % Len(ys)) + 1]>>]
\* the crops of a slide processed on its own: a function of the slide's
\* image, its descriptor and the configuration
SoloCrops(a, s) ==
  LET img == SlideImage(a.file)
      raw == RawDAB(img)
      Inc(t) == RawIncluded(Section(raw, t[2], t[1], s),
                            DefaultRawThreshold, DefaultRawPc)
      tiles == SelectSeq(ScanOrder(img, s), Inc)
  IN  [k \in 1..Len(tiles) |->
         [path |-> CropPath(DumpPrefix(a.condition, Basename(a.file)), k - 1),
          data |-> Crop(img, tiles[k][2], tiles[k][1], s),
          x |-> tiles[k][1], y |-> tiles[k][2]]]
\* the density map of a slide processed on its own
SoloDensities(a, s) ==
  LET img == SlideImage(a.file)
  IN  Zeros(CeilDiv(Len(img), s), CeilDiv(Len(img[1]), s))
IsPrefix(s, t) == Len(s) <= Len(t) /\ \A k \in 1..Len(s) : s[k] = t[k]

\* C16: what a slide's run produces depends on the slide and the
\* configuration alone: its crops, their names and its density map are those
\* of the slide processed on its own, whatever ran before it in the batch.
C16_SlideOutputIndependent ==
  \A i \in Collected :
    /\ IsPrefix(outcomes[i].writes, SoloCrops(batch[i], stride))
    /\ Succeeded(i) => /\ outcomes[i].writes = SoloCrops(batch[i], stride)
                       /\ outcomes[i].d = SoloDensities(batch[i], stride)

\* two slides in a row each had crops written, the second to its end
C16_Witness ==
  /\ Len(outcomes) >= 2
  /\ outcomes[1].writes # <<>>
  /\ Succeeded(2)
  /\ outcomes[2].writes # <<>>


Thresholds == RawThresholds \cup {<<-1, 1>>, <<-7, 10>>, <<0, 1>>, <<2, 1>>}
\* a <= b on floats
Leq(a, b) == Less(a, b) \/ SameValue(a, b)
\* whether the tile of a scan entry is included at raw_threshold t, the
\* image, the stride and raw_pc being those of the run
IncludedAt(e, t) ==
  RawIncluded(Section(raw_DAB, e.y, e.x, stride), t, raw_pc)

\* C18: in raw mode, for a fixed image, stride and raw_pc, the tiles included
\* at a threshold t1 are among those included at any t2 >= t1: a tile the
\* run included stays included at every higher threshold, and a tile
\* included at a lower threshold is one the run included.  Stated of every
\* tile at the step that scores it.
C18_RawThresholdMonotone ==
  [][scored' # scored =>
       LET e == scored'[Len(scored')]
           section == Section(raw_DAB, e.y, e.x, stride)
       IN  \A t \in Thresholds :
             /\ (Leq(raw_threshold, t) /\ e.included)
                  => RawIncluded(section, t, raw_pc)
             /\ (Leq(t, raw_threshold) /\ RawIncluded(section, t, raw_pc))
                  => e.included]_vars

\* the run included a tile that a lower threshold leaves out
C18_Witness ==
  \E k \in 1..Len(scored) : \E t \in Thresholds :
    /\ Less(t, raw_threshold)
    /\ scored[k].included
    /\ ~IncludedAt(scored[k], t)


\* ------------------------------------------------ C19 and C20 (CellsSpec)
\* the whole weights of the fitted map
Weights == [i \in 1..Len(lstsq) |-> lstsq[i][1]]
\* max(|min F|, |max F|): the largest absolute weight
Shift == CHOOSE m \in 0..MaxWeight + 1 :
           /\ \E i \in 1..Len(Weights) : Abs(Weights[i]) = m
           /\ \A i \in 1..Len(Weights) : Abs(Weights[i]) <= m
\* the maximum of the shifted map
Top == CHOOSE t \in 0..(2 * MaxWeight + 2) :
         /\ \E i \in 1..Len(Weights) : Weights[i] + Shift = t
         /\ \A i \in 1..Len(Weights) : Weights[i] + Shift <= t
\* G is (F + Shift) / Top
IsShiftedQuotient(G) ==
  /\ Len(G) = Len(lstsq)
  /\ \A i \in 1..Len(G) : SameValue(G[i], <<Weights[i] + Shift, Top>>)
\* every value of G is in [0, 1], its maximum is exactly 1, and its elements
\* are ordered as those of the fitted map
IsNormalised(G) ==
  /\ Len(G) = Len(lstsq)
  /\ \A i \in 1..Len(G) : Leq(<<0, 1>>, G[i]) /\ Leq(G[i], <<1, 1>>)
  /\ \E i \in 1..Len(G) : SameValue(G[i], <<1, 1>>)
  /\ \A i \in 1..Len(G) : \A j \in 1..Len(G) :
       (Weights[i] < Weights[j]) <=> Less(G[i], G[j])

\* C19: for any finite map F, normalise(F) is (F + max(|min F|, |max F|))
\* over the maximum of that shifted map, and normalise(F) and
\* normalise(normalise(F)) have every value in [0, 1], maximum exactly 1 and
\* the rank ordering of F.
C19_NormaliseRange ==
  /\ DAB # <<>> => (IsShiftedQuotient(DAB) /\ IsNormalised(DAB))
  /\ \A k \in 1..Len(shown) : IsNormalised(shown[k])

\* C20: building the raw signal is pure: the row of fitted weights holds the
\* same values after normalise was called on it as before, and calls with
\* the same argument return the same values.
C20_NormalisePure ==
  /\ T_x # <<>> => T_x = lstsq
  /\ \A k \in 1..Len(shown) : shown[k] = shown[1]


\* ---------------------------------------------------------- C21 (Spec)
\* C21: the function never modifies the slide image it reads: no step of a
\* call, in either mode, changes a pixel of the array the slide reader
\* returned.
C21_ImageNeverModified == [][image' = image]_vars

\* a raw-mode call has returned after writing a crop of an image that is
\* not uniform
C21_Witness ==
  /\ FunctionReturned
  /\ writes # <<>>
  /\ \E r \in 1..H : \E c \in 1..W : image[r][c] # image[1][1]


\* -------------------------------------------------------- C22 (FitSpec)
\* C22: for an image whose every pixel is an exact mixture of the rows of
\* the response matrix, the weight maps of the solve equal the known mixing
\* coefficients at every pixel, within a floating tolerance of 3/1000 of a
\* weight.
C22_SolveRecoversMixture ==
  \A i \in 1..Len(weights) : \A j \in Chromophores :
    Abs(weights[i][j] - 1000 * mix[i][j]) <= 3


\* ------------------------------------------------------ C23 (StatsSpec)
\* entry k of jsons passes the slide filter / has a known case
Passes(k) == slide_filter = "None" \/ jsons[k].file.slide = slide_filter
Known(k) == jsons[k].file.case \in {"c1", "c2", "c3", "c4"}
\* the cells (rows x columns) of the grid of entry k
Cells(k) == Len(jsons[k].densities) * Len(jsons[k].densities[1])
\* the scores roi_count / cells of the first k entries that pass the filter
\* and whose case has condition c, in order
RECURSIVE ScoresOf(_, _)
ScoresOf(k, c) ==
  IF k = 0 THEN <<>>
  ELSE ScoresOf(k - 1, c)
       \o (IF Passes(k) /\ Known(k) /\ case_conditions[jsons[k].file.case] = c
             THEN << <<jsons[k].roi_count, Cells(k)>> >>
             ELSE <<>>)
InUnitInterval(h) == Leq(<<0, 1>>, h) /\ Leq(h, <<1, 1>>)
AllInUnitInterval(l) == \A k \in 1..Len(l) : InUnitInterval(l[k])

\* C23: with norm=True every entry that passes the slide filter and whose
\* case is known puts roi_count / (rows x columns of its grid) on exactly
\* the list of its condition, other entries put nothing on any list, and
\* when every roi_count is at most the cells of its grid every score is in
\* [0, 1].
C23_NormalisedScores ==
  norm =>
    /\ control = ScoresOf(si, "C")
    /\ ad = ScoresOf(si, "AD")
    /\ pd = ScoresOf(si, "PD")
    /\ msa = ScoresOf(si, "MSA")
    /\ (\A k \in 1..si : jsons[k].roi_count <= Cells(k))
         => /\ AllInUnitInterval(control)
            /\ AllInUnitInterval(ad)
            /\ AllInUnitInterval(pd)
            /\ AllInUnitInterval(msa)

\* the loop has ended over two entries: one of an unknown case or filtered
\* out, one scored strictly between 0 and 1 on a grid of several rows
C23_Witness ==
  /\ norm
  /\ si = Len(jsons)
  /\ si = 2
  /\ \E k \in 1..si : ~Known(k) \/ ~Passes(k)
  /\ Len(control) + Len(ad) + Len(pd) + Len(msa) = 1
  /\ \E k \in 1..si :
       /\ Known(k) /\ Passes(k)
       /\ Len(jsons[k].densities) > 1
       /\ 0 < jsons[k].roi_count /\ jsons[k].roi_count < Cells(k)

\* ------------------------------------------------ training preparation
\* the copy loops have run to their end, or were skipped
CopyOver == tpc \notin {"prepare", "copy"}
\* the positions of the copy log that hold crop c
CopiesOf(c) == {i \in 1..Len(copies) : copies[i].s = c.s /\ copies[i].base = c.base}
IsSquare(c) == c.shape[1] = c.shape[2]

\* C24: when the control balancing loop stops after it has run, the number
\* of control training squares equals the number of PD training squares
C24_LoopEndsBalanced ==
  (tpc = "done" /\ control_injection_index > 0) => l_control = l_test

\* C25: the copy step partitions the dumped crops: a square crop is copied
\* once, to train/{s} or to val/{s}, under its own condition and base name,
\* a crop that is not square is copied nowhere, every copy is the copy of a
\* dumped crop, and nothing is copied when train/Controls held a jpg
C25_CopyPartitions ==
  /\ \A c \in dumped : Cardinality(CopiesOf(c)) <= 1
  /\ \A i \in 1..Len(copies) :
       /\ copies[i].to \in {"train", "val"}
       /\ \E c \in dumped : i \in CopiesOf(c) /\ IsSquare(c)
       /\ copies[i].to = "train"
            => [s |-> copies[i].s, base |-> copies[i].base] \in train
  /\ old_controls => copies = <<>>
  /\ (CopyOver /\ ~old_controls) =>
       \A c \in dumped : Cardinality(CopiesOf(c)) = (IF IsSquare(c) THEN 1 ELSE 0)
C25_Witness ==
  /\ CopyOver
  /\ ~old_controls
  /\ \E c \in dumped : ~IsSquare(c)
  /\ \E i, j \in 1..Len(copies) :
       /\ copies[i].to = "train"
       /\ copies[j].to = "val"
       /\ copies[i].base = copies[j].base

\* the injected crops train/Controls holds
Injected == {f \in train : f.s = "Controls" /\ f.base[1] = "CI_"}
\* C29: the control balancing loop does not abort: every iteration writes
\* 25 crops under names not used before, each a full 512 x 512 tile inside
\* the slide, and leaves train/PD alone
C29_LoopIterates ==
  /\ tpc # "raised"
  /\ Cardinality(Injected) = control_injection_index
  /\ (tpc = "crops" /\ written > 0) =>
       /\ im.rows = TileSide
       /\ im.cols = TileSide
       /\ im.y * TileSide + TileSide <= control_slide.yy
       /\ im.x * TileSide + TileSide <= control_slide.xx
  /\ tpc \in {"loop", "done"} =>
       /\ l_test = CountJpg(train, "PD")
       /\ l_control = CountJpg(train, "Controls")
\* the same without the first conjunct: what holds of the iterations that
\* do run
C29_IterationsThatRun ==
  /\ Cardinality(Injected) = control_injection_index
  /\ (tpc = "crops" /\ written > 0) =>
       /\ im.rows = TileSide
       /\ im.cols = TileSide
       /\ im.y * TileSide + TileSide <= control_slide.yy
       /\ im.x * TileSide + TileSide <= control_slide.xx

\* ------------------------------------------------------ splitting cases
\* the keys of the first k items whose condition contains the one asked for
Matching(k) ==
  {case_cond[i].key : i \in {j \in 1..k : Contains(split_condition, case_cond[j].value)}}
Elements(q) == {q[i] : i \in 1..Len(q)}
NoRepeats(q) == Cardinality(Elements(q)) = Len(q)

\* C26: the train and test lists are disjoint, hold together the cases
\* whose condition contains the requested one, each once, and test is as
\* long as train or one longer, the first matching case being in test
C26_UniformSplit ==
  /\ Elements(split_train) \cap Elements(split_test) = {}
  /\ Elements(split_train) \cup Elements(split_test) = Matching(ki)
  /\ NoRepeats(split_train)
  /\ NoRepeats(split_test)
  /\ Len(split_test) - Len(split_train) \in {0, 1}
  /\ \A i \in 1..ki :
       (/\ Contains(split_condition, case_cond[i].value)
        /\ \A j \in 1..(i - 1) : ~Contains(split_condition, case_cond[j].value))
       => split_test # <<>> /\ split_test[1] = case_cond[i].key
C26_Witness ==
  /\ ki = Len(case_cond)
  /\ Len(split_test) = 2
  /\ Len(split_train) = 1
  /\ split_condition = <<"A", "D">>
  /\ \E i \in 1..ki : case_cond[i].value = <<"P", "D", "/", "A", "D">>

\* ------------------------------------------------- the range of raw_DAB
\* the entries of the raw signal map of the run
RawValues == {raw_DAB[r][c] : r \in 1..Len(raw_DAB), c \in 1..Len(raw_DAB[1])}
\* thresholds at or below -1
LowThresholds == {<<-1, 1>>, <<-3, 2>>, <<-2, 1>>}
\* with a threshold at or below -1 and a raw_pc >= 0 no tile of the scan is
\* included
NoTileAtLowThreshold ==
  \A k \in 1..Len(scored) : \A t \in LowThresholds :
    \A rpc \in RawPcs \cup {<<0, 1>>} :
      /\ MaskCount(Section(raw_DAB, scored[k].y, scored[k].x, stride), t) = 0
      /\ ~RawIncluded(Section(raw_DAB, scored[k].y, scored[k].x, stride), t, rpc)

\* C27: every value of the raw signal normalise(DAB) - normalise(BT) lies in
\* [-1, 1], so at a raw_threshold <= -1 the mask is empty and no tile is
\* included for any raw_pc >= 0
C27_RawSignalBounded ==
  raw_DAB # <<>> =>
    /\ \A v \in RawValues : Leq(<<-1, 1>>, v) /\ Leq(v, <<1, 1>>)
    /\ NoTileAtLowThreshold

\* away from the NaN maps of uniformly coloured images the bound holds
RawBoundedUnlessNaN ==
  raw_DAB # <<>> =>
    \A v \in RawValues : IsNaN(v) \/ (Leq(<<-1, 1>>, v) /\ Leq(v, <<1, 1>>))

\* ------------------------------------------------ the output directories
\* C28: the directory process writes a listed slide's crops and density
\* file to is one of the directories the setup step created
C28_OutputDirectoryCreated == pi > 0 => target \in made
\* with a dump_path that ends with a slash it is
OutputDirectoryCreatedWithSlash ==
  (pi > 0 /\ config.dump_path[Len(config.dump_path)] = "/") => target \in made

\* ------------------------------------------------------------ ABetaDataset
\* 1 when the condition of the case contains "AD", else 0
LabelOf(case) == IF Contains(<<"A", "D">>, conds.map[case]) THEN 1 ELSE 0
\* the JSON of a slide of a case is below root
HasJson(case, label) ==
  \E f \in root : f.name = case \o <<"-">> \o label \o <<".json">>
AllZeros(channel) ==
  \A r \in 1..Len(channel) : \A c \in 1..Len(channel[r]) : channel[r][c] = 0
\* the targets carry the labels of the cases, in order
TargetsAreLabels ==
  /\ dpc = "done" => Len(targets) = Len(cases)
  /\ \A i \in 1..Len(targets) : targets[i] = LabelOf(cases[i])
\* one channel per slide label, all zeros where the slide JSON is missing
ChannelsFollowLabels ==
  /\ dpc = "done" => Len(ds_data) = Len(cases)
  /\ \A i \in 1..Len(ds_data) :
       /\ Len(ds_data[i]) = Len(slide_labels)
       /\ \A j \in 1..Len(slide_labels) :
            ~HasJson(cases[i], slide_labels[j]) => AllZeros(ds_data[i][j])

\* C30: the construction of ABetaDataset ends with data and targets as long
\* as the case list, item i labelled as case i, with or without
\* case_conditions, one channel per slide label and zeros for a missing JSON
C30_DatasetFollowsCases ==
  /\ dpc # "raised"
  /\ conds.supplied => TargetsAreLabels
  /\ ChannelsFollowLabels
\* the labels with case_conditions given
LabelsWhenSupplied == conds.supplied => (dpc # "raised" /\ TargetsAreLabels)
====
